---------------------------- MODULE Spec2Model ----------------------------
(***************************************************************************)
(* A model of the geographic value types of gl-map:                        *)
(*   LngLat        src/src/geo/lng_lat.ts                                  *)
(*   LngLatBounds  src/src/geo/lng_lat_bounds.ts                           *)
(*   Point         src/unnamed/part_000                                    *)
(*                                                                         *)
(* JavaScript objects live in heaps (sequences indexed by object identity) *)
(* so that two references to one object are one index: the bounds' corners *)
(* are references, and extend writes through them.                         *)
(*                                                                         *)
(* A JavaScript number is modelled as an extended rational [n, d]:         *)
(*   d > 0           the finite value n/d, in lowest terms                 *)
(*   d = 0, n = 1    Infinity                                              *)
(*   d = 0, n = -1   -Infinity                                             *)
(*   d = 0, n = 0    NaN                                                   *)
(* Arithmetic is exact (no binary rounding) and there is no negative zero. *)
(***************************************************************************)
EXTENDS Integers, Sequences, FiniteSets, TLC

VARIABLES
    lnglats,   \* heap of LngLat objects: index -> [lng, lat]
    llbounds,  \* heap of LngLatBounds objects: index -> [sw, ne], 0 = undefined
    points,    \* heap of Point objects: index -> [x, y]
    last,      \* the last call: operation, receiver, argument, inputs, outcome
    calls,     \* the number of calls made so far
    supplied   \* the LngLat objects a caller has passed to a LngLatBounds
               \* constructor or setter

vars == <<lnglats, llbounds, points, last, calls, supplied>>

---------------------------------------------------------------------------
(* Bounds of the model *)

MaxLngLat == 4
MaxBounds == 2
MaxPoints == 3
MaxPointCalls == 3
MaxCalls == 5

---------------------------------------------------------------------------
(* JavaScript numbers *)

Abs(i) == IF i < 0 THEN -i ELSE i

Sign(i) == IF i < 0 THEN -1 ELSE IF i > 0 THEN 1 ELSE 0

RECURSIVE GCD(_, _)
GCD(a, b) == IF b = 0 THEN a ELSE GCD(b, a % b)

\* The number n/d in normal form.
Norm(n, d) ==
    IF d = 0 THEN [n |-> Sign(n), d |-> 0]
    ELSE LET g == GCD(Abs(n), Abs(d))
             s == Sign(d)
         IN  [n |-> s * (n \div g), d |-> s * (d \div g)]

R(i) == [n |-> i, d |-> 1]

NaN == [n |-> 0, d |-> 0]

Infinity == [n |-> 1, d |-> 0]

isNaN(a) == a.d = 0 /\ a.n = 0

IsFinite(a) == a.d > 0

Neg(a) == [n |-> -a.n, d |-> a.d]

\* a + b
Plus(a, b) ==
    IF isNaN(a) \/ isNaN(b) THEN NaN
    ELSE IF a.d = 0 /\ b.d = 0 THEN (IF a.n = b.n THEN a ELSE NaN)
    ELSE IF a.d = 0 THEN a
    ELSE IF b.d = 0 THEN b
    ELSE Norm(a.n * b.d + b.n * a.d, a.d * b.d)

\* a - b
Minus(a, b) == Plus(a, Neg(b))

\* a * b; the factors are cancelled crosswise first to keep products small.
Times(a, b) ==
    IF a.d = 0 \/ b.d = 0 THEN Norm(a.n * b.n, 0)
    ELSE LET g1 == GCD(Abs(a.n), b.d)
             g2 == GCD(Abs(b.n), a.d)
         IN  Norm((a.n \div g1) * (b.n \div g2), (a.d \div g2) * (b.d \div g1))

\* a / b: x/0 is +-Infinity, 0/0 and Infinity/Infinity are NaN.
Over(a, b) ==
    IF isNaN(a) \/ isNaN(b) THEN NaN
    ELSE IF b.d = 0 THEN (IF a.d = 0 THEN NaN ELSE R(0))
    ELSE IF b.n = 0 THEN Norm(a.n, 0)
    ELSE IF a.d = 0 THEN Norm(a.n * Sign(b.n), 0)
    ELSE Times(a, Norm(b.d, b.n))

\* a < b; false when either is NaN.
Lt(a, b) ==
    IF isNaN(a) \/ isNaN(b) THEN FALSE
    ELSE IF a.d = 0 /\ b.d = 0 THEN a.n < b.n
    ELSE IF a.d = 0 THEN a.n < 0
    ELSE IF b.d = 0 THEN b.n > 0
    ELSE a.n * b.d < b.n * a.d

Gt(a, b) == Lt(b, a)

\* a <= b; false when either is NaN.
Le(a, b) == ~isNaN(a) /\ ~isNaN(b) /\ ~Lt(b, a)

Ge(a, b) == Le(b, a)

MathMin(a, b) ==
    IF isNaN(a) \/ isNaN(b) THEN NaN ELSE IF Lt(b, a) THEN b ELSE a

MathMax(a, b) ==
    IF isNaN(a) \/ isNaN(b) THEN NaN ELSE IF Lt(a, b) THEN b ELSE a

\* Math.round: the nearest integer, a tie going up: floor(a + 1/2).
MathRound(a) ==
    IF a.d = 0 THEN a ELSE R((2 * a.n + a.d) \div (2 * a.d))

---------------------------------------------------------------------------
(* LngLat *)

\* cos(0) = 1 and cos(60 deg) = 1/2.  Math.cos((Math.PI / 180) * 90) is
\* 6.123233995736766e-17 in binary floating point, a positive number and not
\* zero; the model keeps it positive and small, 1/CosPoleInv.
CosPoleInv == 1000000

CosLats == {R(0), R(60), R(-60), R(90), R(-90)}

\* Math.cos((Math.PI / 180) * lat), for lat in CosLats
MathCosDeg(lat) ==
    IF lat = R(0) THEN R(1)
    ELSE IF lat = R(60) \/ lat = R(-60) THEN Norm(1, 2)
    ELSE Norm(1, CosPoleInv)

earthCircumferenceInMetersAtEquator == 40075017

\* LngLatCtor with the poles refused: `>=` and `<=` for `>` and `<`
LngLatCtorNoPoles(lng, lat) ==
    IF isNaN(lng) \/ isNaN(lat)
    THEN [err |-> "Error", lng |-> lng, lat |-> lat]
    ELSE IF Ge(lat, R(90)) \/ Le(lat, R(-90))
    THEN [err |-> "Error", lng |-> lng, lat |-> lat]
    ELSE [err |-> "none", lng |-> lng, lat |-> lat]

\* The outcome of `new LngLat(lng, lat)`: the object's fields, or the Error.
LngLatCtor(lng, lat) ==
    IF isNaN(lng) \/ isNaN(lat)
    THEN [err |-> "Error", lng |-> lng, lat |-> lat]
    ELSE IF Gt(lat, R(90)) \/ Lt(lat, R(-90))
    THEN [err |-> "Error", lng |-> lng, lat |-> lat]
    ELSE [err |-> "none", lng |-> lng, lat |-> lat]

Obj(c) == [lng |-> c.lng, lat |-> c.lat]

LngLatIds == 1..Len(lnglats)

BoundsIds == 1..Len(llbounds)

\* A call's record: the operation, its receiver and its object argument (heap
\* indices, 0 for none), its other inputs, the object it returned (0 for none
\* or a primitive) and how it ended ("none": it returned).
Call(op, self, arg, in, ret, err) ==
    [op |-> op, self |-> self, arg |-> arg, in |-> in, ret |-> ret, err |-> err]

Init ==
    /\ lnglats = <<>>
    /\ llbounds = <<>>
    /\ points = <<>>
    /\ last = Call("init", 0, 0, <<>>, 0, "none")
    /\ calls = 0
    /\ supplied = {}

\* new LngLat(lng, lat)
NewLngLat(lng, lat) ==
    LET c == LngLatCtor(lng, lat) IN
    /\ Len(lnglats) < MaxLngLat
    /\ IF c.err = "none"
       THEN /\ lnglats' = Append(lnglats, Obj(c))
            /\ last' = Call("LngLat", 0, 0, <<lng, lat>>, Len(lnglats) + 1, "none")
       ELSE /\ lnglats' = lnglats
            /\ last' = Call("LngLat", 0, 0, <<lng, lat>>, 0, c.err)
    /\ UNCHANGED <<llbounds, points, supplied>>

\* o.toBounds(radius).  The two corners are constructed in order; when either
\* constructor throws, no bounds is made and the Error reaches the caller.
toBounds(o, radius) ==
    LET lng == lnglats[o].lng
        lat == lnglats[o].lat
        n == Len(lnglats)
    IN
    /\ lat \in CosLats
    /\ \E latAccuracy \in
            {Over(Times(R(360), radius), R(earthCircumferenceInMetersAtEquator))} :
       \E lngAccuracy \in {Over(latAccuracy, MathCosDeg(lat))} :
       \E c1 \in {LngLatCtor(Minus(lng, lngAccuracy), Minus(lat, latAccuracy))} :
       \E c2 \in {LngLatCtor(Plus(lng, lngAccuracy), Plus(lat, latAccuracy))} :
          IF c1.err # "none" \/ c2.err # "none"
          THEN /\ UNCHANGED <<lnglats, llbounds>>
               /\ last' = Call("toBounds", o, 0, <<radius>>, 0, "Error")
          ELSE /\ n + 2 <= MaxLngLat
               /\ Len(llbounds) < MaxBounds
               /\ lnglats' = lnglats \o <<Obj(c1), Obj(c2)>>
               /\ llbounds' = Append(llbounds, [sw |-> n + 1, ne |-> n + 2])
               /\ last' = Call("toBounds", o, 0, <<radius>>, Len(llbounds) + 1, "none")
    /\ UNCHANGED <<points, supplied>>

---------------------------------------------------------------------------
(* LngLatBounds *)

\* The corners after `new LngLatBounds(sw, ne)`; 0 is a missing argument.
BoundsCtor(sw, ne) ==
    IF sw = 0 THEN [sw |-> 0, ne |-> 0]
    ELSE IF ne # 0 THEN [sw |-> sw, ne |-> ne]
    ELSE [sw |-> 0, ne |-> 0]

\* new LngLatBounds(sw, ne)
NewBounds(sw, ne) ==
    /\ Len(llbounds) < MaxBounds
    /\ llbounds' = Append(llbounds, BoundsCtor(sw, ne))
    /\ last' = Call("LngLatBounds", 0, 0, <<sw, ne>>, Len(llbounds) + 1, "none")
    /\ supplied' = supplied \cup ({sw, ne} \ {0})
    /\ UNCHANGED <<lnglats, points>>

\* b.setNorthEast(ne)
setNorthEast(b, ne) ==
    /\ llbounds' = [llbounds EXCEPT ![b].ne = ne]
    /\ last' = Call("setNorthEast", b, ne, <<>>, b, "none")
    /\ supplied' = supplied \cup {ne}
    /\ UNCHANGED <<lnglats, points>>

\* b.setSouthWest(sw)
setSouthWest(b, sw) ==
    /\ llbounds' = [llbounds EXCEPT ![b].sw = sw]
    /\ last' = Call("setSouthWest", b, sw, <<>>, b, "none")
    /\ supplied' = supplied \cup {sw}
    /\ UNCHANGED <<lnglats, points>>

\* TargetIsEmpty with the test negated
TargetIsEmptyNegated(sw2, ne2) == ~(sw2 = 0 \/ ne2 = 0)

\* `if (!sw2 || !ne2) return this`, for a LngLatBounds argument
TargetIsEmpty(sw2, ne2) == sw2 = 0 \/ ne2 = 0

\* CornerCopy with the constructor's arguments in the other order
CornerCopySwapped(c) == LngLatCtor(c.lat, c.lng)

\* `new LngLat(c.lng, c.lat)`: the corner extend creates from the target's
CornerCopy(c) == LngLatCtor(c.lng, c.lat)

ExtendSwLng(h, sw2, sw) == MathMin(h[sw2].lng, h[sw].lng)

ExtendSwLat(h, sw2, sw) == MathMin(h[sw2].lat, h[sw].lat)

ExtendNeLng(h, ne2, ne) == MathMax(h[ne2].lng, h[ne].lng)

\* ExtendNeLat with the right-hand side of the line before it
ExtendNeLatFromLng(h, ne2, ne) == MathMax(h[ne2].lng, h[ne].lng)

ExtendNeLat(h, ne2, ne) == MathMax(h[ne2].lat, h[ne].lat)

\* ExtendCorners keeping the target's corner objects as the corners of b
\* (`this._sw = sw2; this._ne = ne2`) where extend makes copies of them
ExtendCornersAliased(b, sw2, ne2, kind, arg) ==
    LET sw == llbounds[b].sw
        ne == llbounds[b].ne
        n == Len(lnglats)
    IN
    IF sw = 0 /\ ne = 0
    THEN IF sw2 = 0 \/ ne2 = 0
         THEN /\ UNCHANGED <<lnglats, llbounds>>
              /\ last' = Call("extend", b, arg, kind, 0, "TypeError")
         ELSE
         \E c1 \in {CornerCopy(lnglats[sw2])}, c2 \in {CornerCopy(lnglats[ne2])} :
            IF c1.err # "none" \/ c2.err # "none"
            THEN /\ UNCHANGED <<lnglats, llbounds>>
                 /\ last' = Call("extend", b, arg, kind, 0, "Error")
            ELSE /\ lnglats' = lnglats
                 /\ llbounds' = [llbounds EXCEPT ![b] = [sw |-> sw2, ne |-> ne2]]
                 /\ last' = Call("extend", b, arg, kind, b, "none")
    ELSE IF sw = 0 \/ sw2 = 0
    THEN /\ UNCHANGED <<lnglats, llbounds>>
         /\ last' = Call("extend", b, arg, kind, 0, "TypeError")
    ELSE \E h1 \in {[lnglats EXCEPT ![sw].lng = ExtendSwLng(lnglats, sw2, sw)]} :
         \E h2 \in {[h1 EXCEPT ![sw].lat = ExtendSwLat(h1, sw2, sw)]} :
            IF ne = 0 \/ ne2 = 0
            THEN /\ lnglats' = h2
                 /\ UNCHANGED llbounds
                 /\ last' = Call("extend", b, arg, kind, 0, "TypeError")
            ELSE \E h3 \in {[h2 EXCEPT ![ne].lng = ExtendNeLng(h2, ne2, ne)]} :
                 \E h4 \in {[h3 EXCEPT ![ne].lat = ExtendNeLat(h3, ne2, ne)]} :
                    /\ lnglats' = h4
                    /\ UNCHANGED llbounds
                    /\ last' = Call("extend", b, arg, kind, b, "none")

\* Lines 76 to 86 of extend on the bounds b, the target's corners being the
\* objects sw2 and ne2.  The four assignments are made in order, each reading
\* the heap the one before left, and a corner that is undefined raises a
\* TypeError where it is first dereferenced, after the assignments before it;
\* so does a corner of the target that is undefined.
ExtendCorners(b, sw2, ne2, kind, arg) ==
    LET sw == llbounds[b].sw
        ne == llbounds[b].ne
        n == Len(lnglats)
    IN
    IF sw = 0 /\ ne = 0
    THEN IF sw2 = 0 \/ ne2 = 0
         THEN /\ UNCHANGED <<lnglats, llbounds>>
              /\ last' = Call("extend", b, arg, kind, 0, "TypeError")
         ELSE
         \E c1 \in {CornerCopy(lnglats[sw2])}, c2 \in {CornerCopy(lnglats[ne2])} :
            IF c1.err # "none" \/ c2.err # "none"
            THEN /\ UNCHANGED <<lnglats, llbounds>>
                 /\ last' = Call("extend", b, arg, kind, 0, "Error")
            ELSE /\ n + 2 <= MaxLngLat
                 /\ lnglats' = lnglats \o <<Obj(c1), Obj(c2)>>
                 /\ llbounds' = [llbounds EXCEPT ![b] = [sw |-> n + 1, ne |-> n + 2]]
                 /\ last' = Call("extend", b, arg, kind, b, "none")
    ELSE IF sw = 0 \/ sw2 = 0
    THEN /\ UNCHANGED <<lnglats, llbounds>>
         /\ last' = Call("extend", b, arg, kind, 0, "TypeError")
    ELSE \E h1 \in {[lnglats EXCEPT ![sw].lng = ExtendSwLng(lnglats, sw2, sw)]} :
         \E h2 \in {[h1 EXCEPT ![sw].lat = ExtendSwLat(h1, sw2, sw)]} :
            IF ne = 0 \/ ne2 = 0
            THEN /\ lnglats' = h2
                 /\ UNCHANGED llbounds
                 /\ last' = Call("extend", b, arg, kind, 0, "TypeError")
            ELSE \E h3 \in {[h2 EXCEPT ![ne].lng = ExtendNeLng(h2, ne2, ne)]} :
                 \E h4 \in {[h3 EXCEPT ![ne].lat = ExtendNeLat(h3, ne2, ne)]} :
                    /\ lnglats' = h4
                    /\ UNCHANGED llbounds
                    /\ last' = Call("extend", b, arg, kind, b, "none")

\* b.extend(obj), obj the LngLat object o
extend(b, o) ==
    /\ ExtendCorners(b, o, o, "LngLat", o)
    /\ UNCHANGED <<points, supplied>>

\* b.extend(obj), obj the LngLatBounds object t
extendBounds(b, t) ==
    /\ IF TargetIsEmpty(llbounds[t].sw, llbounds[t].ne)
       THEN /\ UNCHANGED <<lnglats, llbounds>>
            /\ last' = Call("extend", b, t, "LngLatBounds", b, "none")
       ELSE ExtendCorners(b, llbounds[t].sw, llbounds[t].ne, "LngLatBounds", t)
    /\ UNCHANGED <<points, supplied>>

\* `new LngLat((sw.lng + ne.lng) / 2, (sw.lat + ne.lat) / 2)`: the
\* constructor's outcome on the midpoint of the corners sw and ne
Center(sw, ne) ==
    LngLatCtor(Over(Plus(sw.lng, ne.lng), R(2)), Over(Plus(sw.lat, ne.lat), R(2)))

\* b.getCenter()
getCenter(b) == Center(lnglats[llbounds[b].sw], lnglats[llbounds[b].ne])

\* isEmpty with `||` for `&&`
isEmptyEither(b) == ~(llbounds[b].sw # 0 \/ llbounds[b].ne # 0)

isEmpty(b) == ~(llbounds[b].sw # 0 /\ llbounds[b].ne # 0)

\* b.contains(lnglat), lnglat a record with fields lng and lat
contains(b, lnglat) ==
    LET sw == lnglats[llbounds[b].sw]
        ne == lnglats[llbounds[b].ne]
        lng == lnglat.lng
        lat == lnglat.lat
        containsLatitude == Le(sw.lat, lat) /\ Le(lat, ne.lat)
        containsLongitude ==
            IF Gt(sw.lng, ne.lng)
            THEN Ge(sw.lng, lng) /\ Ge(lng, ne.lng)
            ELSE Le(sw.lng, lng) /\ Le(lng, ne.lng)
    IN  containsLatitude /\ containsLongitude

---------------------------------------------------------------------------
(* The callers' inputs *)

LngVals == {R(-170), R(170)}

LatVals == {R(60), R(90)}

\* 0, and the radius that is 30 degrees of latitude
Radii == {R(0), Norm(earthCircumferenceInMetersAtEquator, 12)}

\* One more call, within the model's budget of calls
Tick == calls < MaxCalls /\ calls' = calls + 1

Next ==
    \/ \E lng \in LngVals, lat \in LatVals : Tick /\ NewLngLat(lng, lat)
    \/ \E sw, ne \in LngLatIds \cup {0} : Tick /\ NewBounds(sw, ne)
    \/ \E b \in BoundsIds, o \in LngLatIds : Tick /\ setNorthEast(b, o)
    \/ \E b \in BoundsIds, o \in LngLatIds : Tick /\ setSouthWest(b, o)
    \/ \E b \in BoundsIds, o \in LngLatIds : Tick /\ extend(b, o)
    \/ \E b, t \in BoundsIds : Tick /\ extendBounds(b, t)

Spec == Init /\ [][Next]_vars

\* LngLat at the latitudes whose cosine the model has, and toBounds
NextToBounds ==
    \/ \E lng \in LngVals, lat \in CosLats : Tick /\ NewLngLat(lng, lat)
    \/ \E o \in LngLatIds, radius \in Radii : Tick /\ toBounds(o, radius)

SpecToBounds == Init /\ [][NextToBounds]_vars

\* The constructor of LngLat alone, on numbers of every kind
CtorLngs == {NaN, Infinity, R(0), R(200)}

CtorLats ==
    {NaN, Infinity, Norm(-900001, 10000), R(-90), R(0), R(90), Norm(900001, 10000)}

NextCtor == \E lng \in CtorLngs, lat \in CtorLats : Tick /\ NewLngLat(lng, lat)

SpecCtor == Init /\ [][NextCtor]_vars

---------------------------------------------------------------------------
(* Point *)

PointIds == 1..Len(points)

\* Math.cos and Math.sin of a whole number q of quarter turns (q * Math.PI / 2)
\* as the exact 1, 0, -1: binary floating point is off by less than 1e-15.
MathCos(q) == IF q % 4 = 0 THEN R(1) ELSE IF q % 4 = 2 THEN R(-1) ELSE R(0)

MathSin(q) == IF q % 4 = 1 THEN R(1) ELSE IF q % 4 = 3 THEN R(-1) ELSE R(0)

\* The integers whose squares the model takes roots of
SqrtMax == 8

IsSquare(i) == \E r \in 0..SqrtMax : r * r = i

Root(i) == CHOOSE r \in 0..SqrtMax : r * r = i

\* Math.sqrt is exact on a ratio of squares; the model takes no other root.
HasSqrt(a) == a.d = 0 \/ a.n < 0 \/ (IsSquare(a.n) /\ IsSquare(a.d))

MathSqrt(a) ==
    IF isNaN(a) \/ a.n < 0 THEN NaN
    ELSE IF a.d = 0 THEN a
    ELSE Norm(Root(a.n), Root(a.d))

\* The in-place family: the heap h after the call on the point t.

_matMult(h, t, m) ==
    LET x == Plus(Times(m[1], h[t].x), Times(m[2], h[t].y))
        y == Plus(Times(m[3], h[t].x), Times(m[4], h[t].y))
    IN  [h EXCEPT ![t] = [x |-> x, y |-> y]]

_add(h, t, p) ==
    [h EXCEPT ![t] = [x |-> Plus(h[t].x, h[p].x), y |-> Plus(h[t].y, h[p].y)]]

_sub(h, t, p) ==
    [h EXCEPT ![t] = [x |-> Minus(h[t].x, h[p].x), y |-> Minus(h[t].y, h[p].y)]]

_mult(h, t, k) ==
    [h EXCEPT ![t] = [x |-> Times(h[t].x, k), y |-> Times(h[t].y, k)]]

_div(h, t, k) ==
    [h EXCEPT ![t] = [x |-> Over(h[t].x, k), y |-> Over(h[t].y, k)]]

\* `this.x *= p.x; this.y *= p.y`: the second statement reads p.y after the
\* first has written this.x, which is p.x when p is this.
_multByPoint(h, t, p) ==
    LET h1 == [h EXCEPT ![t].x = Times(h[t].x, h[p].x)]
    IN  [h1 EXCEPT ![t].y = Times(h1[t].y, h1[p].y)]

_divByPoint(h, t, p) ==
    LET h1 == [h EXCEPT ![t].x = Over(h[t].x, h[p].x)]
    IN  [h1 EXCEPT ![t].y = Over(h1[t].y, h1[p].y)]

mag(h, t) == MathSqrt(Plus(Times(h[t].x, h[t].x), Times(h[t].y, h[t].y)))

_unit(h, t) == _div(h, t, mag(h, t))

_perp(h, t) == [h EXCEPT ![t] = [x |-> Neg(h[t].y), y |-> h[t].x]]

_rotate(h, t, angle) ==
    LET cos == MathCos(angle)
        sin == MathSin(angle)
        x == Minus(Times(cos, h[t].x), Times(sin, h[t].y))
        y == Plus(Times(sin, h[t].x), Times(cos, h[t].y))
    IN  [h EXCEPT ![t] = [x |-> x, y |-> y]]

_rotateAround(h, t, angle, p) ==
    LET cos == MathCos(angle)
        sin == MathSin(angle)
        dx == Minus(h[t].x, h[p].x)
        dy == Minus(h[t].y, h[p].y)
        x == Minus(Plus(h[p].x, Times(cos, dx)), Times(sin, dy))
        y == Plus(Plus(h[p].y, Times(sin, dx)), Times(cos, dy))
    IN  [h EXCEPT ![t] = [x |-> x, y |-> y]]

_round(h, t) ==
    [h EXCEPT ![t] = [x |-> MathRound(h[t].x), y |-> MathRound(h[t].y)]]

\* `===` on numbers: NaN equals nothing, itself included.
StrictEquals(a, b) == ~isNaN(a) /\ ~isNaN(b) /\ a = b

\* a.equals(b)
equals(a, b) ==
    /\ StrictEquals(points[a].x, points[b].x)
    /\ StrictEquals(points[a].y, points[b].y)

\* clone returning `this` and not the new point
cloneReturnsThis(h, p) == [heap |-> Append(h, h[p]), ret |-> p]

\* p.clone(): the heap with the new point, and the new point
clone(h, p) == [heap |-> Append(h, h[p]), ret |-> Len(h) + 1]

GeoUnchanged == UNCHANGED <<lnglats, llbounds, supplied>>

\* new Point(x, y)
NewPoint(x, y) ==
    /\ Len(points) < MaxPoints
    /\ points' = Append(points, [x |-> x, y |-> y])
    /\ last' = Call("Point", 0, 0, <<x, y>>, Len(points) + 1, "none")
    /\ GeoUnchanged

\* A call of the in-place family on the point t: it returns t.
InPlace(op, t, arg, in, h) ==
    /\ points' = h
    /\ last' = Call(op, t, arg, in, t, "none")
    /\ GeoUnchanged

\* A call of the copy-returning family on the point p: `this.clone()` and
\* then the in-place call on what clone returned, which is the result.
Copy(op, p, arg, in, c, h) ==
    /\ Len(points) < MaxPoints
    /\ points' = h
    /\ last' = Call(op, p, arg, in, c.ret, "none")
    /\ GeoUnchanged

PointClone(p) ==
    \E c \in {clone(points, p)} : Copy("clone", p, 0, <<>>, c, c.heap)

add(p, q) ==
    \E c \in {clone(points, p)} : Copy("add", p, q, <<>>, c, _add(c.heap, c.ret, q))

sub(p, q) ==
    \E c \in {clone(points, p)} : Copy("sub", p, q, <<>>, c, _sub(c.heap, c.ret, q))

multByPoint(p, q) ==
    \E c \in {clone(points, p)} :
        Copy("multByPoint", p, q, <<>>, c, _multByPoint(c.heap, c.ret, q))

divByPoint(p, q) ==
    \E c \in {clone(points, p)} :
        Copy("divByPoint", p, q, <<>>, c, _divByPoint(c.heap, c.ret, q))

mult(p, k) ==
    \E c \in {clone(points, p)} : Copy("mult", p, 0, <<k>>, c, _mult(c.heap, c.ret, k))

div(p, k) ==
    \E c \in {clone(points, p)} : Copy("div", p, 0, <<k>>, c, _div(c.heap, c.ret, k))

rotate(p, a) ==
    \E c \in {clone(points, p)} :
        Copy("rotate", p, 0, <<a>>, c, _rotate(c.heap, c.ret, a))

rotateAround(p, a, q) ==
    \E c \in {clone(points, p)} :
        Copy("rotateAround", p, q, <<a>>, c, _rotateAround(c.heap, c.ret, a, q))

matMult(p, m) ==
    \E c \in {clone(points, p)} :
        Copy("matMult", p, 0, <<m>>, c, _matMult(c.heap, c.ret, m))

unit(p) ==
    \E c \in {clone(points, p)} :
        /\ HasSqrt(Plus(Times(points[p].x, points[p].x), Times(points[p].y, points[p].y)))
        /\ Copy("unit", p, 0, <<>>, c, _unit(c.heap, c.ret))

perp(p) ==
    \E c \in {clone(points, p)} : Copy("perp", p, 0, <<>>, c, _perp(c.heap, c.ret))

round(p) ==
    \E c \in {clone(points, p)} : Copy("round", p, 0, <<>>, c, _round(c.heap, c.ret))

\* The callers' inputs
PointXs == {R(0), R(3)}

PointYs == {R(4), Norm(-5, 2)}

Factors == {R(0), R(2)}

Angles == {1}

Matrices == {<<R(1), R(2), R(3), R(4)>>}

TickPoint == calls < MaxPointCalls /\ calls' = calls + 1

NextCopy ==
    \/ \E p \in PointIds : TickPoint /\ PointClone(p)
    \/ \E p, q \in PointIds : TickPoint /\ add(p, q)
    \/ \E p, q \in PointIds : TickPoint /\ sub(p, q)
    \/ \E p, q \in PointIds : TickPoint /\ multByPoint(p, q)
    \/ \E p, q \in PointIds : TickPoint /\ divByPoint(p, q)
    \/ \E p \in PointIds, k \in Factors : TickPoint /\ mult(p, k)
    \/ \E p \in PointIds, k \in Factors : TickPoint /\ div(p, k)
    \/ \E p \in PointIds, a \in Angles : TickPoint /\ rotate(p, a)
    \/ \E p, q \in PointIds, a \in Angles : TickPoint /\ rotateAround(p, a, q)
    \/ \E p \in PointIds, m \in Matrices : TickPoint /\ matMult(p, m)
    \/ \E p \in PointIds : TickPoint /\ unit(p)
    \/ \E p \in PointIds : TickPoint /\ perp(p)
    \/ \E p \in PointIds : TickPoint /\ round(p)

NextInPlace ==
    \/ \E t, p \in PointIds :
          TickPoint /\ InPlace("_add", t, p, <<>>, _add(points, t, p))
    \/ \E t, p \in PointIds :
          TickPoint /\ InPlace("_sub", t, p, <<>>, _sub(points, t, p))
    \/ \E t, p \in PointIds :
          TickPoint /\ InPlace("_multByPoint", t, p, <<>>, _multByPoint(points, t, p))
    \/ \E t, p \in PointIds :
          TickPoint /\ InPlace("_divByPoint", t, p, <<>>, _divByPoint(points, t, p))
    \/ \E t \in PointIds, k \in Factors :
          TickPoint /\ InPlace("_mult", t, 0, <<k>>, _mult(points, t, k))
    \/ \E t \in PointIds, k \in Factors :
          TickPoint /\ InPlace("_div", t, 0, <<k>>, _div(points, t, k))
    \/ \E t \in PointIds, a \in Angles :
          TickPoint /\ InPlace("_rotate", t, 0, <<a>>, _rotate(points, t, a))
    \/ \E t, p \in PointIds, a \in Angles :
          TickPoint /\ InPlace("_rotateAround", t, p, <<a>>, _rotateAround(points, t, a, p))
    \/ \E t \in PointIds, m \in Matrices :
          TickPoint /\ InPlace("_matMult", t, 0, <<m>>, _matMult(points, t, m))
    \/ \E t \in PointIds :
          /\ TickPoint
          /\ HasSqrt(Plus(Times(points[t].x, points[t].x), Times(points[t].y, points[t].y)))
          /\ InPlace("_unit", t, 0, <<>>, _unit(points, t))
    \/ \E t \in PointIds : TickPoint /\ InPlace("_perp", t, 0, <<>>, _perp(points, t))
    \/ \E t \in PointIds : TickPoint /\ InPlace("_round", t, 0, <<>>, _round(points, t))

NextPoint ==
    \/ \E x \in PointXs, y \in PointYs : TickPoint /\ NewPoint(x, y)
    \/ NextCopy
    \/ NextInPlace

SpecPoint == Init /\ [][NextPoint]_vars

---------------------------------------------------------------------------
(* Properties *)

\* A call was made in this step (every call counts; a stuttering step does not).
Called == calls' = calls + 1

BothSet(b) == llbounds[b].sw # 0 /\ llbounds[b].ne # 0

SwOf(b) == lnglats[llbounds[b].sw]

NeOf(b) == lnglats[llbounds[b].ne]

\* The points contains is asked about
Probes ==
    [lng : {R(-170), R(0), R(170), R(180)}, lat : {R(0), R(60), R(75), R(90)}]

\* C1: new LngLat(lng, lat) throws exactly when lng or lat is NaN or lat is
\* not within [-90, 90]; otherwise the new object holds the given lng and lat.
C1_CtorValidates ==
    last.op = "LngLat" =>
        LET lng == last.in[1]
            lat == last.in[2]
            invalid == isNaN(lng) \/ isNaN(lat)
                       \/ ~(Le(R(-90), lat) /\ Le(lat, R(90)))
        IN  /\ (last.err # "none") <=> invalid
            /\ ~invalid => /\ last.ret = Len(lnglats)
                           /\ lnglats[last.ret] = [lng |-> lng, lat |-> lat]
            /\ invalid => last.ret = 0

\* A longitude beyond 180 with the boundary latitude 90 was accepted.
C1_Witness ==
    /\ last.op = "LngLat"
    /\ last.err = "none"
    /\ Gt(last.in[1], R(180))
    /\ last.in[2] = R(90)
    /\ lnglats[last.ret] = [lng |-> last.in[1], lat |-> R(90)]

\* C2, as claimed: whenever both corners of a bounds are set, the southwest
\* latitude is at most the northeast latitude.
C2_Original ==
    \A b \in BoundsIds : BothSet(b) => Le(SwOf(b).lat, NeOf(b).lat)

LatOrdered(b) == Le(SwOf(b).lat, NeOf(b).lat)

\* C2, amended: extend keeps the latitudes of its receiver ordered: when both
\* corners are set with southwest.lat <= northeast.lat before the call, the
\* same holds after it.
C2_ExtendKeepsLatOrder ==
    [][\A b \in BoundsIds :
          (Called /\ last'.op = "extend" /\ last'.self = b
              /\ BothSet(b) /\ LatOrdered(b))
          => LatOrdered(b)']_vars

\* An extend by a point has returned on a bounds whose corners are two
\* objects a caller supplied, the southwest one now as far south as the point
\* and strictly south of the northeast one.
C2_Witness ==
    /\ last.op = "extend"
    /\ last.err = "none"
    /\ BothSet(last.self)
    /\ llbounds[last.self].sw # llbounds[last.self].ne
    /\ llbounds[last.self].sw \in supplied
    /\ Lt(SwOf(last.self).lat, NeOf(last.self).lat)
    /\ last.in = "LngLat"
    /\ lnglats[last.arg].lat = SwOf(last.self).lat
    /\ last.arg # llbounds[last.self].sw

StrictlyInside(b, p) ==
    /\ Lt(SwOf(b).lng, p.lng) /\ Lt(p.lng, NeOf(b).lng)
    /\ Lt(SwOf(b).lat, p.lat) /\ Lt(p.lat, NeOf(b).lat)

\* C3, as claimed: contains is true of every point strictly inside a box
\* with sw.lng <= ne.lng, and of a point with lng = 180 and a latitude within
\* the box's when sw.lng = 170 and ne.lng = -170.
C3_Original ==
    \A b \in BoundsIds : \A p \in Probes :
        BothSet(b) =>
            /\ (Le(SwOf(b).lng, NeOf(b).lng) /\ StrictlyInside(b, p))
                  => contains(b, p)
            /\ (SwOf(b).lng = R(170) /\ NeOf(b).lng = R(-170) /\ p.lng = R(180)
                  /\ Le(SwOf(b).lat, p.lat) /\ Le(p.lat, NeOf(b).lat))
                  => contains(b, p)

\* The target of the last call, an extend, lies within the bounds b: the
\* point, or both corners of the target bounds.
TargetWithin(b) ==
    IF last.in = "LngLat"
    THEN contains(b, lnglats[last.arg])
    ELSE /\ contains(b, SwOf(last.arg))
         /\ contains(b, NeOf(last.arg))

\* C4, as claimed: on a bounds with both corners set and sw.lng <= ne.lng,
\* extend(t) returns with t (or both corners of a non-empty bounds t) within
\* the bounds and with every point still contained that was contained before.
C4_Original ==
    [][\A b \in BoundsIds :
          (Called /\ last'.op = "extend" /\ last'.self = b
              /\ BothSet(b) /\ Le(SwOf(b).lng, NeOf(b).lng)
              /\ (last'.in = "LngLatBounds" => BothSet(last'.arg)))
          => /\ last'.err = "none"
             /\ TargetWithin(b)'
             /\ \A p \in Probes : contains(b, p) => contains(b, p)']_vars

\* C5, as claimed: extend on a bounds changes no LngLat object that a caller
\* supplied to a constructor or setter of a bounds, and no corner of another
\* bounds.
C5_Original ==
    [][\A a \in BoundsIds :
          (Called /\ last'.op = "extend" /\ last'.self = a)
          => /\ \A o \in supplied : lnglats'[o] = lnglats[o]
             /\ \A b \in BoundsIds \ {a} :
                   /\ llbounds'[b] = llbounds[b]
                   /\ llbounds[b].sw # 0 => lnglats'[llbounds[b].sw] = SwOf(b)
                   /\ llbounds[b].ne # 0 => lnglats'[llbounds[b].ne] = NeOf(b)]_vars

\* C6, as claimed: toBounds(radius), radius >= 0, on a valid LngLat returns a
\* new bounds, without an error, that contains the LngLat.
C6_Original ==
    last.op = "toBounds" =>
        /\ last.err = "none"
        /\ last.ret \in BoundsIds
        /\ contains(last.ret, lnglats[last.self])

\* C7: extend by a point P on a bounds with no corner set returns with both
\* corners equal to P, the bounds not empty and containing P, and P its centre
\* (what getCenter returns: Center of the two corners after the call).
C7_ExtendEmptyByPoint ==
    [][\A b \in BoundsIds :
          (Called /\ last'.op = "extend" /\ last'.self = b /\ last'.in = "LngLat"
              /\ llbounds[b].sw = 0 /\ llbounds[b].ne = 0)
          => LET P == lnglats[last'.arg] IN
             /\ last'.err = "none"
             /\ lnglats'[last'.arg] = P
             /\ BothSet(b)'
             /\ SwOf(b)' = P
             /\ NeOf(b)' = P
             /\ ~isEmpty(b)'
             /\ TargetWithin(b)'
             /\ Center(SwOf(b)', NeOf(b)')
                   = [err |-> "none", lng |-> P.lng, lat |-> P.lat]]_vars

\* extend by a point has just given a bounds its two corners: the two newest
\* objects, equal to the point.
C7_Witness ==
    /\ last.op = "extend"
    /\ last.in = "LngLat"
    /\ last.err = "none"
    /\ llbounds[last.self] = [sw |-> Len(lnglats) - 1, ne |-> Len(lnglats)]
    /\ last.arg < Len(lnglats) - 1
    /\ SwOf(last.self) = lnglats[last.arg]
    /\ getCenter(last.self).lng = lnglats[last.arg].lng

\* C8: extend by a bounds with no corner set changes nothing of the receiver,
\* whatever corners it has, and returns it.
C8_ExtendByEmptyIsNoOp ==
    [][\A b, t \in BoundsIds :
          (Called /\ last'.op = "extend" /\ last'.in = "LngLatBounds"
              /\ last'.self = b /\ last'.arg = t
              /\ llbounds[t].sw = 0 /\ llbounds[t].ne = 0)
          => /\ last'.err = "none"
             /\ last'.ret = b
             /\ llbounds' = llbounds
             /\ lnglats' = lnglats]_vars

\* extend by a bounds with no corner has returned on a receiver with exactly
\* one corner set.
C8_Witness ==
    /\ last.op = "extend"
    /\ last.in = "LngLatBounds"
    /\ last.err = "none"
    /\ last.arg # last.self
    /\ llbounds[last.arg] = [sw |-> 0, ne |-> 0]
    /\ llbounds[last.self].sw # 0
    /\ llbounds[last.self].ne = 0

CopyOps ==
    {"clone", "add", "sub", "multByPoint", "divByPoint", "mult", "div", "rotate",
     "rotateAround", "matMult", "unit", "perp", "round"}

InPlaceOps ==
    {"_add", "_sub", "_multByPoint", "_divByPoint", "_mult", "_div", "_rotate",
     "_rotateAround", "_matMult", "_unit", "_perp", "_round"}

\* The last call returned a point that equals() its receiver.
ResultEqualsReceiver == equals(last.ret, last.self)

\* A copy-returning call leaves every point there was as it was, its receiver
\* among them, and returns a new point.
CopyFrame ==
    (Called /\ last'.op \in CopyOps)
    => /\ last'.ret \notin PointIds
       /\ last'.ret \in PointIds'
       /\ \A i \in PointIds : points'[i] = points[i]

\* An in-place call changes no point but its receiver: not the point it was
\* cloned from, nor any other.
InPlaceFrame ==
    (Called /\ last'.op \in InPlaceOps)
    => \A i \in PointIds \ {last'.self} : points'[i] = points[i]

\* C10, as claimed: a copy-returning call on a point leaves the receiver
\* unchanged and returns another object, also with the receiver as argument;
\* clone().equals(original) is true; an in-place call on a clone leaves the
\* original unchanged.
C10_Original ==
    [][/\ CopyFrame
       /\ InPlaceFrame
       /\ (Called /\ last'.op = "clone") => ResultEqualsReceiver']_vars

\* C10, amended: as claimed, clone().equals(original) being true when neither
\* coordinate of the original is NaN (equals compares with ===, and NaN is
\* not === NaN).
C10_CopiesLeaveReceiver ==
    [][/\ CopyFrame
       /\ InPlaceFrame
       /\ (Called /\ last'.op = "clone"
              /\ ~isNaN(points[last'.self].x) /\ ~isNaN(points[last'.self].y))
          => ResultEqualsReceiver']_vars

\* p.add(p) has returned a new point, twice p, and p is not (0, 0).
C10_Witness ==
    /\ last.op = "add"
    /\ last.arg = last.self
    /\ last.ret # last.self
    /\ points[last.ret].x = Times(R(2), points[last.self].x)
    /\ points[last.ret].y = Times(R(2), points[last.self].y)
    /\ points[last.ret] # points[last.self]

\* The object that is the target's southwest corner in the call last made, an
\* extend: the point itself, or the target bounds' corner.
TargetSw == IF last.in = "LngLat" THEN last.arg ELSE llbounds[last.arg].sw

TargetNe == IF last.in = "LngLat" THEN last.arg ELSE llbounds[last.arg].ne

\* What the claim has extend leave in the southwest corner of b, t being the
\* target's southwest corner: the elementwise minimum of the two corners as
\* they are, or t's coordinates when b has no southwest corner.
MinCorner(b, t) ==
    IF llbounds[b].sw = 0 THEN lnglats[t]
    ELSE [lng |-> MathMin(lnglats[t].lng, SwOf(b).lng),
          lat |-> MathMin(lnglats[t].lat, SwOf(b).lat)]

\* The same for the northeast corner and the maximum.
MaxCorner(b, t) ==
    IF llbounds[b].ne = 0 THEN lnglats[t]
    ELSE [lng |-> MathMax(lnglats[t].lng, NeOf(b).lng),
          lat |-> MathMax(lnglats[t].lat, NeOf(b).lat)]

\* C11, as claimed: extend by a non-empty target on a bounds with a corner set
\* (one corner or both) returns and leaves southwest = (min of the southwest
\* longitudes, min of the southwest latitudes) and northeast = (max, max), of
\* the values the receiver's and the target's corners had before the call.
C11_Original ==
    [][\A b \in BoundsIds :
          (Called /\ last'.op = "extend" /\ last'.self = b
              /\ ~(llbounds[b].sw = 0 /\ llbounds[b].ne = 0)
              /\ (last'.in = "LngLatBounds" => BothSet(last'.arg)))
          => /\ last'.err = "none"
             /\ BothSet(b)'
             /\ SwOf(b)' = MinCorner(b, TargetSw')
             /\ NeOf(b)' = MaxCorner(b, TargetNe')]_vars

\* The corners of the bounds b that no caller supplied to a constructor or a
\* setter: the objects extend made when it initialised b.
CopiesOf(b) == ({llbounds[b].sw, llbounds[b].ne} \ {0}) \ supplied

\* C12: an extend that returns on a bounds a with no corner set gives it two
\* new LngLat objects, distinct from one another and from every object there
\* was (the target point and the target bounds' corners among them), holding
\* the target's coordinates, and changes no object there was.  Any extend on a
\* changes no bounds but a and no object but the corners of a; so a later
\* extend on the target bounds leaves the copies another bounds was given
\* unchanged, and a later extend on a bounds whose corners are its copies
\* leaves the target and every other object unchanged.
C12_CopiesNotAliases ==
    [][\A a \in BoundsIds :
          (Called /\ last'.op = "extend" /\ last'.self = a)
          => /\ (llbounds[a] = [sw |-> 0, ne |-> 0]
                   /\ (last'.in = "LngLatBounds" => BothSet(last'.arg)))
                => /\ last'.err = "none"
                   /\ BothSet(a)'
                   /\ {llbounds'[a].sw, llbounds'[a].ne} \cap LngLatIds = {}
                   /\ llbounds'[a].sw # llbounds'[a].ne
                   /\ SwOf(a)' = lnglats[TargetSw']
                   /\ NeOf(a)' = lnglats[TargetNe']
                   /\ \A o \in LngLatIds : lnglats'[o] = lnglats[o]
             /\ \A o \in LngLatIds \ {llbounds[a].sw, llbounds[a].ne} :
                   lnglats'[o] = lnglats[o]
             /\ \A b \in BoundsIds \ {a} :
                   /\ llbounds'[b] = llbounds[b]
                   /\ \A c \in CopiesOf(b) : lnglats'[c] = lnglats[c]
                   /\ CopiesOf(b) \cap {llbounds[a].sw, llbounds[a].ne} = {}]_vars

\* A bounds holds the two copies an extend by a point gave it, and a later
\* extend on it by another point has moved a copy away from the first point,
\* which is as it was.
C12_Witness ==
    /\ last.op = "extend"
    /\ last.in = "LngLat"
    /\ last.err = "none"
    /\ BothSet(last.self)
    /\ CopiesOf(last.self) = {llbounds[last.self].sw, llbounds[last.self].ne}
    /\ llbounds[last.self].sw # llbounds[last.self].ne
    /\ last.arg \notin CopiesOf(last.self)
    /\ \E p \in LngLatIds \ (CopiesOf(last.self) \cup {last.arg}) :
          /\ SwOf(last.self) = lnglats[p]
          /\ NeOf(last.self) = lnglats[last.arg]
          /\ lnglats[p] # lnglats[last.arg]

============================================================================
